---- MODULE Spec2Model ----
(***************************************************************************)
(* Model of src/fsm/fsm.py: the classes State, FSM and ModThreeFSM, the    *)
(* example program src/fsm/example_fsm.py and the fixtures of              *)
(* src/fsm/fsm_tests.py.                                                   *)
(*                                                                         *)
(* Python values are records [ty, v]: ty is the Python type, v an integer  *)
(* payload (the number of an int, the digit of a one-character str, the    *)
(* heap index of a State).  A state name is the sequence of its            *)
(* characters, so that name[1:] and int(...) are computed, not assumed.    *)
(* State objects live in heap (a sequence; the index is the identity).     *)
(***************************************************************************)
EXTENDS Integers, Sequences, FiniteSets, TLC

VARIABLES heap, fsm, call

vars == <<heap, fsm, call>>

----------------------------------------------------------------------------
(* Bounds *)

\* Largest total number of transition entries added in one run of the
\* generic specification.
MaxTrans == 3

\* Longest argument passed to process_input / process_three_mod_input.
MaxLen == 3

\* Longest bit sequence fed to a ModThreeFSM.
MaxBits == 4

\* Largest number of transitions added to a ModThreeFSM after its
\* construction.
MaxExtra == 1

----------------------------------------------------------------------------
(* Python values *)

PyNone == [ty |-> "NoneType", v |-> 0]
PyInt(n) == [ty |-> "int", v |-> n]
PyStr(n) == [ty |-> "str", v |-> n]
PyBool(b) == [ty |-> "bool", v |-> IF b THEN 1 ELSE 0]
PyState(id) == [ty |-> "State", v |-> id]

\* isinstance(x, int): bool is a subclass of int.
IsInt(x) == x.ty \in {"int", "bool"}

\* Names as character sequences.
S0 == <<"S", "0">>
S1 == <<"S", "1">>
S2 == <<"S", "2">>
S3 == <<"S", "3">>

EmptyDict == [k \in {} |-> 0]

DictSet(d, k, x) == [y \in (DOMAIN d) \cup {k} |-> IF y = k THEN x ELSE d[y]]

\* Exceptions: the class raised and the raise site (its message template).
NoErr == [exc |-> "", msg |-> "", state |-> <<>>, sym |-> PyNone]
Raise(exc, msg) == [exc |-> exc, msg |-> msg, state |-> <<>>, sym |-> PyNone]
RaiseAt(exc, msg, name, sym) == [exc |-> exc, msg |-> msg, state |-> name, sym |-> sym]

\* The result of a call: the heap and machine after it, the value returned
\* (PyNone when it raised) and the exception raised (NoErr when it returned).
Result(h, f, ret, err) == [heap |-> h, fsm |-> f, ret |-> ret, err |-> err]

----------------------------------------------------------------------------
(* class State *)

\* State.__init__(name, is_accepting); is_accepting is a Python value.
State__init__(h, f, name, is_accepting) ==
    IF name = <<>>
    THEN Result(h, f, PyNone, Raise("ValueError", "State name must be a non-empty string."))
    ELSE IF is_accepting.ty # "bool"
    THEN Result(h, f, PyNone, Raise("ValueError", "is_accepting must be a boolean value."))
    ELSE Result(Append(h, [name |-> name,
                           is_accepting |-> (is_accepting.v = 1),
                           transitions |-> EmptyDict]),
                f, PyState(Len(h) + 1), NoErr)

\* State_add_transition with the assignment moved above the duplicate check:
\* the call still raises, but the entry already names the new target.
State_add_transition_assign_first(h, f, self, input_symbol, next_state) ==
    IF ~IsInt(input_symbol)
    THEN Result(h, f, PyNone, Raise("ValueError", "Input symbol must be an integer."))
    ELSE IF input_symbol.v \in DOMAIN h[self].transitions
    THEN Result(IF next_state.ty = "State"
                THEN [h EXCEPT ![self].transitions = DictSet(@, input_symbol.v, next_state.v)]
                ELSE h,
                f, PyNone, RaiseAt("ValueError", "Transition for input already exists.",
                                   <<>>, input_symbol))
    ELSE IF next_state.ty # "State"
    THEN Result(h, f, PyNone, Raise("TypeError", "next_state must be an instance of State."))
    ELSE Result([h EXCEPT ![self].transitions = DictSet(@, input_symbol.v, next_state.v)],
                f, PyNone, NoErr)

\* State_add_transition storing the entry under the symbol's magnitude.
State_add_transition_abs_key(h, f, self, input_symbol, next_state) ==
    IF ~IsInt(input_symbol)
    THEN Result(h, f, PyNone, Raise("ValueError", "Input symbol must be an integer."))
    ELSE IF input_symbol.v \in DOMAIN h[self].transitions
    THEN Result(h, f, PyNone, RaiseAt("ValueError", "Transition for input already exists.",
                                      <<>>, input_symbol))
    ELSE IF next_state.ty # "State"
    THEN Result(h, f, PyNone, Raise("TypeError", "next_state must be an instance of State."))
    ELSE Result([h EXCEPT ![self].transitions =
                     DictSet(@, IF input_symbol.v < 0 THEN -input_symbol.v ELSE input_symbol.v,
                             next_state.v)],
                f, PyNone, NoErr)

\* State_add_transition without the duplicate check: a second call for a
\* symbol replaces the entry.
State_add_transition_overwrite(h, f, self, input_symbol, next_state) ==
    IF ~IsInt(input_symbol)
    THEN Result(h, f, PyNone, Raise("ValueError", "Input symbol must be an integer."))
    ELSE IF next_state.ty # "State"
    THEN Result(h, f, PyNone, Raise("TypeError", "next_state must be an instance of State."))
    ELSE Result([h EXCEPT ![self].transitions = DictSet(@, input_symbol.v, next_state.v)],
                f, PyNone, NoErr)

\* State.add_transition(self, input_symbol, next_state)
State_add_transition(h, f, self, input_symbol, next_state) ==
    IF ~IsInt(input_symbol)
    THEN Result(h, f, PyNone, Raise("ValueError", "Input symbol must be an integer."))
    ELSE IF input_symbol.v \in DOMAIN h[self].transitions
    THEN Result(h, f, PyNone, RaiseAt("ValueError", "Transition for input already exists.",
                                      <<>>, input_symbol))
    ELSE IF next_state.ty # "State"
    THEN Result(h, f, PyNone, Raise("TypeError", "next_state must be an instance of State."))
    ELSE Result([h EXCEPT ![self].transitions = DictSet(@, input_symbol.v, next_state.v)],
                f, PyNone, NoErr)

\* State.get_next_state(self, input_symbol): dict.get with default None.
\* A str key never equals an int key.
get_next_state(state, input_symbol) ==
    IF IsInt(input_symbol) /\ input_symbol.v \in DOMAIN state.transitions
    THEN PyState(state.transitions[input_symbol.v])
    ELSE PyNone

----------------------------------------------------------------------------
(* class FSM *)

\* No machine constructed yet.
NoFSM == [cls |-> "None", current_state |-> 0, states |-> EmptyDict]

\* FSM.__init__(initial_state)
FSM__init__(h, f, initial_state) ==
    IF initial_state.ty # "State"
    THEN Result(h, f, PyNone, Raise("TypeError", "initial_state must be an instance of State."))
    ELSE Result(h,
                [cls |-> "FSM",
                 current_state |-> initial_state.v,
                 states |-> DictSet(EmptyDict, h[initial_state.v].name, initial_state.v)],
                PyNone, NoErr)

\* add_state with the duplicate check on the object instead of its name.
add_state_identity_check(h, f, state) ==
    IF state.ty # "State"
    THEN Result(h, f, PyNone, Raise("TypeError", "state must be an instance of State."))
    ELSE IF \E n \in DOMAIN f.states : f.states[n] = state.v
    THEN Result(h, f, PyNone, RaiseAt("ValueError", "A state with the name already exists.",
                                      h[state.v].name, PyNone))
    ELSE Result(h, [f EXCEPT !.states = DictSet(@, h[state.v].name, state.v)], PyNone, NoErr)

\* add_state that also makes the added state the current one.
add_state_moves_current(h, f, state) ==
    IF state.ty # "State"
    THEN Result(h, f, PyNone, Raise("TypeError", "state must be an instance of State."))
    ELSE IF h[state.v].name \in DOMAIN f.states
    THEN Result(h, f, PyNone, RaiseAt("ValueError", "A state with the name already exists.",
                                      h[state.v].name, PyNone))
    ELSE Result(h, [f EXCEPT !.states = DictSet(@, h[state.v].name, state.v),
                             !.current_state = state.v], PyNone, NoErr)

\* FSM.add_state(state)
add_state(h, f, state) ==
    IF state.ty # "State"
    THEN Result(h, f, PyNone, Raise("TypeError", "state must be an instance of State."))
    ELSE IF h[state.v].name \in DOMAIN f.states
    THEN Result(h, f, PyNone, RaiseAt("ValueError", "A state with the name already exists.",
                                      h[state.v].name, PyNone))
    ELSE Result(h, [f EXCEPT !.states = DictSet(@, h[state.v].name, state.v)], PyNone, NoErr)

\* add_transition delegating to the target state with the source as target.
add_transition_swapped_delegation(h, f, from_state_name, input_symbol, to_state_name) ==
    IF from_state_name \notin DOMAIN f.states
    THEN Result(h, f, PyNone, RaiseAt("ValueError", "Source state does not exist.",
                                      from_state_name, PyNone))
    ELSE IF to_state_name \notin DOMAIN f.states
    THEN Result(h, f, PyNone, RaiseAt("ValueError", "Target state does not exist.",
                                      to_state_name, PyNone))
    ELSE IF ~IsInt(input_symbol)
    THEN Result(h, f, PyNone, Raise("ValueError", "Input symbol must be an integer."))
    ELSE State_add_transition(h, f, f.states[to_state_name], input_symbol,
                              PyState(f.states[from_state_name]))

\* FSM.add_transition(from_state_name, input_symbol, to_state_name)
add_transition(h, f, from_state_name, input_symbol, to_state_name) ==
    IF from_state_name \notin DOMAIN f.states
    THEN Result(h, f, PyNone, RaiseAt("ValueError", "Source state does not exist.",
                                      from_state_name, PyNone))
    ELSE IF to_state_name \notin DOMAIN f.states
    THEN Result(h, f, PyNone, RaiseAt("ValueError", "Target state does not exist.",
                                      to_state_name, PyNone))
    ELSE IF ~IsInt(input_symbol)
    THEN Result(h, f, PyNone, Raise("ValueError", "Input symbol must be an integer."))
    ELSE State_add_transition(h, f, f.states[from_state_name], input_symbol,
                              PyState(f.states[to_state_name]))

\* An argument passed as input_sequence: its Python type and, for an
\* iterable, the values iteration yields.
Arg(ty, items) == [ty |-> ty, items |-> items]

\* hasattr(input_sequence, "__iter__")
HasIter(a) == a.ty \in {"list", "tuple", "str"}

\* process_input_loop with the loop bound off by one: the last symbol is
\* never consumed.
RECURSIVE process_input_loop_skip_last(_, _, _, _)
process_input_loop_skip_last(h, cur, items, i) ==
    IF i >= Len(items)
    THEN [cur |-> cur, err |-> NoErr]
    ELSE LET next_state == get_next_state(h[cur], items[i])
         IN  IF next_state = PyNone
             THEN [cur |-> cur,
                   err |-> RaiseAt("ValueError", "No transition for input from state.",
                                   h[cur].name, items[i])]
             ELSE process_input_loop_skip_last(h, next_state.v, items, i + 1)

\* process_input_loop with the return inside the loop: it stops after the
\* first symbol.
process_input_loop_return_in_loop(h, cur, items, i) ==
    IF i > Len(items)
    THEN [cur |-> cur, err |-> NoErr]
    ELSE LET next_state == get_next_state(h[cur], items[i])
         IN  IF next_state = PyNone
             THEN [cur |-> cur,
                   err |-> RaiseAt("ValueError", "No transition for input from state.",
                                   h[cur].name, items[i])]
             ELSE [cur |-> next_state.v, err |-> NoErr]

\* The for loop of process_input, from the i-th symbol on, with cur the
\* current state: the state it stops in and the exception it raised.
RECURSIVE process_input_loop(_, _, _, _)
process_input_loop(h, cur, items, i) ==
    IF i > Len(items)
    THEN [cur |-> cur, err |-> NoErr]
    ELSE LET next_state == get_next_state(h[cur], items[i])
         IN  IF next_state = PyNone
             THEN [cur |-> cur,
                   err |-> RaiseAt("ValueError", "No transition for input from state.",
                                   h[cur].name, items[i])]
             ELSE process_input_loop(h, next_state.v, items, i + 1)

\* process_input made transactional: a failing run puts current_state back.
process_input_rollback(h, f, input_sequence) ==
    IF ~HasIter(input_sequence)
    THEN Result(h, f, PyNone, Raise("TypeError", "Input sequence must be iterable."))
    ELSE IF Len(input_sequence.items) = 0
    THEN Result(h, f, PyNone, Raise("ValueError", "Input sequence cannot be empty."))
    ELSE LET run == process_input_loop(h, f.current_state, input_sequence.items, 1)
             g == [f EXCEPT !.current_state = run.cur]
         IN  IF run.err = NoErr
             THEN Result(h, g, PyState(run.cur), NoErr)
             ELSE Result(h, f, PyNone, run.err)

\* process_input without the check for an empty sequence.
process_input_no_empty_check(h, f, input_sequence) ==
    IF ~HasIter(input_sequence)
    THEN Result(h, f, PyNone, Raise("TypeError", "Input sequence must be iterable."))
    ELSE LET run == process_input_loop(h, f.current_state, input_sequence.items, 1)
             g == [f EXCEPT !.current_state = run.cur]
         IN  IF run.err = NoErr
             THEN Result(h, g, PyState(run.cur), NoErr)
             ELSE Result(h, g, PyNone, run.err)

\* process_input popping the first transition it takes from the table of
\* the state the run starts in.
process_input_consumes_first(h, f, input_sequence) ==
    IF ~HasIter(input_sequence)
    THEN Result(h, f, PyNone, Raise("TypeError", "Input sequence must be iterable."))
    ELSE IF Len(input_sequence.items) = 0
    THEN Result(h, f, PyNone, Raise("ValueError", "Input sequence cannot be empty."))
    ELSE LET run == process_input_loop(h, f.current_state, input_sequence.items, 1)
             g == [f EXCEPT !.current_state = run.cur]
             d == h[f.current_state].transitions
             popped == [h EXCEPT ![f.current_state].transitions =
                            [k \in DOMAIN d \ {input_sequence.items[1].v} |-> d[k]]]
         IN  IF run.err = NoErr
             THEN Result(popped, g, PyState(run.cur), NoErr)
             ELSE Result(h, g, PyNone, run.err)

\* process_input starting every run at the registered state named S0
\* instead of current_state.
process_input_restart(h, f, input_sequence) ==
    IF ~HasIter(input_sequence)
    THEN Result(h, f, PyNone, Raise("TypeError", "Input sequence must be iterable."))
    ELSE IF Len(input_sequence.items) = 0
    THEN Result(h, f, PyNone, Raise("ValueError", "Input sequence cannot be empty."))
    ELSE LET start == IF S0 \in DOMAIN f.states THEN f.states[S0] ELSE f.current_state
             run == process_input_loop(h, start, input_sequence.items, 1)
             g == [f EXCEPT !.current_state = run.cur]
         IN  IF run.err = NoErr
             THEN Result(h, g, PyState(run.cur), NoErr)
             ELSE Result(h, g, PyNone, run.err)

\* process_input clearing the is_accepting flag of the state a run leaves.
process_input_clears_flag(h, f, input_sequence) ==
    IF ~HasIter(input_sequence)
    THEN Result(h, f, PyNone, Raise("TypeError", "Input sequence must be iterable."))
    ELSE IF Len(input_sequence.items) = 0
    THEN Result(h, f, PyNone, Raise("ValueError", "Input sequence cannot be empty."))
    ELSE LET run == process_input_loop(h, f.current_state, input_sequence.items, 1)
             g == [f EXCEPT !.current_state = run.cur]
             left == [h EXCEPT ![f.current_state].is_accepting = FALSE]
         IN  IF run.err = NoErr
             THEN Result(left, g, PyState(run.cur), NoErr)
             ELSE Result(left, g, PyNone, run.err)

\* FSM.process_input(input_sequence)
process_input(h, f, input_sequence) ==
    IF ~HasIter(input_sequence)
    THEN Result(h, f, PyNone, Raise("TypeError", "Input sequence must be iterable."))
    ELSE IF Len(input_sequence.items) = 0
    THEN Result(h, f, PyNone, Raise("ValueError", "Input sequence cannot be empty."))
    ELSE LET run == process_input_loop(h, f.current_state, input_sequence.items, 1)
             g == [f EXCEPT !.current_state = run.cur]
         IN  IF run.err = NoErr
             THEN Result(h, g, PyState(run.cur), NoErr)
             ELSE Result(h, g, PyNone, run.err)

\* is_accepting answering for the whole registry: true when any registered
\* state is accepting.
is_accepting_any_registered(h, f) ==
    Result(h, f, PyBool(\E n \in DOMAIN f.states : h[f.states[n]].is_accepting), NoErr)

\* fsm.current_state = state, the assignment a caller restarts a run with.
set_current_state(h, f, state) ==
    Result(h, [f EXCEPT !.current_state = state.v], PyNone, NoErr)

\* FSM.is_accepting()
is_accepting(h, f) == Result(h, f, PyBool(h[f.current_state].is_accepting), NoErr)

----------------------------------------------------------------------------
(* class ModThreeFSM(FSM) *)

\* ModThreeFSM.__init__ with the two transitions of S1 swapped.
ModThreeFSM__init__swapped(h, f) ==
    LET r0 == State__init__(h, f, S0, PyBool(TRUE))
        r1 == State__init__(r0.heap, f, S1, PyBool(TRUE))
        r2 == State__init__(r1.heap, f, S2, PyBool(TRUE))
        s0 == r0.ret
        s1 == r1.ret
        s2 == r2.ret
        m0 == FSM__init__(r2.heap, f, s0)
        m1 == add_state(m0.heap, m0.fsm, s1)
        m2 == add_state(m1.heap, m1.fsm, s2)
        t1 == State_add_transition(m2.heap, m2.fsm, s0.v, PyInt(0), s0)
        t2 == State_add_transition(t1.heap, t1.fsm, s0.v, PyInt(1), s1)
        t3 == State_add_transition(t2.heap, t2.fsm, s1.v, PyInt(0), s0)
        t4 == State_add_transition(t3.heap, t3.fsm, s1.v, PyInt(1), s2)
        t5 == State_add_transition(t4.heap, t4.fsm, s2.v, PyInt(0), s1)
        t6 == State_add_transition(t5.heap, t5.fsm, s2.v, PyInt(1), s2)
    IN  Result(t6.heap, [t6.fsm EXCEPT !.cls = "ModThreeFSM"], PyNone, NoErr)

\* ModThreeFSM.__init__ with the two transitions of S2 swapped.
ModThreeFSM__init__s2_swapped(h, f) ==
    LET r0 == State__init__(h, f, S0, PyBool(TRUE))
        r1 == State__init__(r0.heap, f, S1, PyBool(TRUE))
        r2 == State__init__(r1.heap, f, S2, PyBool(TRUE))
        s0 == r0.ret
        s1 == r1.ret
        s2 == r2.ret
        m0 == FSM__init__(r2.heap, f, s0)
        m1 == add_state(m0.heap, m0.fsm, s1)
        m2 == add_state(m1.heap, m1.fsm, s2)
        t1 == State_add_transition(m2.heap, m2.fsm, s0.v, PyInt(0), s0)
        t2 == State_add_transition(t1.heap, t1.fsm, s0.v, PyInt(1), s1)
        t3 == State_add_transition(t2.heap, t2.fsm, s1.v, PyInt(0), s2)
        t4 == State_add_transition(t3.heap, t3.fsm, s1.v, PyInt(1), s0)
        t5 == State_add_transition(t4.heap, t4.fsm, s2.v, PyInt(0), s2)
        t6 == State_add_transition(t5.heap, t5.fsm, s2.v, PyInt(1), s1)
    IN  Result(t6.heap, [t6.fsm EXCEPT !.cls = "ModThreeFSM"], PyNone, NoErr)

\* ModThreeFSM.__init__ without its last add_transition call: S2 has no
\* transition for 1.
ModThreeFSM__init__no_s2_loop(h, f) ==
    LET r0 == State__init__(h, f, S0, PyBool(TRUE))
        r1 == State__init__(r0.heap, f, S1, PyBool(TRUE))
        r2 == State__init__(r1.heap, f, S2, PyBool(TRUE))
        s0 == r0.ret
        s1 == r1.ret
        s2 == r2.ret
        m0 == FSM__init__(r2.heap, f, s0)
        m1 == add_state(m0.heap, m0.fsm, s1)
        m2 == add_state(m1.heap, m1.fsm, s2)
        t1 == State_add_transition(m2.heap, m2.fsm, s0.v, PyInt(0), s0)
        t2 == State_add_transition(t1.heap, t1.fsm, s0.v, PyInt(1), s1)
        t3 == State_add_transition(t2.heap, t2.fsm, s1.v, PyInt(0), s2)
        t4 == State_add_transition(t3.heap, t3.fsm, s1.v, PyInt(1), s0)
        t5 == State_add_transition(t4.heap, t4.fsm, s2.v, PyInt(0), s1)
    IN  Result(t5.heap, [t5.fsm EXCEPT !.cls = "ModThreeFSM"], PyNone, NoErr)

\* ModThreeFSM.__init__(): the three states are allocated at the end of h.
ModThreeFSM__init__(h, f) ==
    LET r0 == State__init__(h, f, S0, PyBool(TRUE))
        r1 == State__init__(r0.heap, f, S1, PyBool(TRUE))
        r2 == State__init__(r1.heap, f, S2, PyBool(TRUE))
        s0 == r0.ret
        s1 == r1.ret
        s2 == r2.ret
        m0 == FSM__init__(r2.heap, f, s0)
        m1 == add_state(m0.heap, m0.fsm, s1)
        m2 == add_state(m1.heap, m1.fsm, s2)
        t1 == State_add_transition(m2.heap, m2.fsm, s0.v, PyInt(0), s0)
        t2 == State_add_transition(t1.heap, t1.fsm, s0.v, PyInt(1), s1)
        t3 == State_add_transition(t2.heap, t2.fsm, s1.v, PyInt(0), s2)
        t4 == State_add_transition(t3.heap, t3.fsm, s1.v, PyInt(1), s0)
        t5 == State_add_transition(t4.heap, t4.fsm, s2.v, PyInt(0), s1)
        t6 == State_add_transition(t5.heap, t5.fsm, s2.v, PyInt(1), s2)
    IN  Result(t6.heap, [t6.fsm EXCEPT !.cls = "ModThreeFSM"], PyNone, NoErr)

\* The first element of the argument the validation loop of
\* process_three_mod_input rejects (0 when it accepts them all).
RECURSIVE first_invalid(_, _)
first_invalid(items, i) ==
    IF i > Len(items) THEN 0
    ELSE IF ~IsInt(items[i]) \/ items[i].v \notin {0, 1} THEN i
    ELSE first_invalid(items, i + 1)

Digits == <<"0", "1", "2", "3", "4", "5", "6", "7", "8", "9">>

\* int(s) of a character sequence: the number, or -1 for the ValueError of
\* an invalid literal.
RECURSIVE int_of(_, _)
int_of(chars, acc) ==
    IF chars = <<>> THEN acc
    ELSE IF \E d \in 1..10 : Digits[d] = Head(chars)
    THEN int_of(Tail(chars), acc * 10 + ((CHOOSE d \in 1..10 : Digits[d] = Head(chars)) - 1))
    ELSE -1

\* process_three_mod_input validating each element only when the run
\* reaches it: the valid bits before an offending element are processed.
process_three_mod_input_lazy(h, f, input_sequence) ==
    IF input_sequence.ty # "list"
    THEN Result(h, f, PyNone, Raise("TypeError", "Input sequence must be a list."))
    ELSE LET bad == first_invalid(input_sequence.items, 1)
             run == process_input_loop(h, f.current_state,
                                       SubSeq(input_sequence.items, 1, bad - 1), 1)
             g == [f EXCEPT !.current_state = run.cur]
         IN  IF bad # 0 /\ ~IsInt(input_sequence.items[bad])
             THEN Result(h, g, PyNone,
                         RaiseAt("TypeError", "Each input in the sequence must be an integer.",
                                 <<>>, input_sequence.items[bad]))
             ELSE IF bad # 0
             THEN Result(h, g, PyNone,
                         RaiseAt("TypeError", "Each input value must be binary (0 or 1).",
                                 <<>>, input_sequence.items[bad]))
             ELSE LET r == process_input(h, f, input_sequence)
                      name == h[r.fsm.current_state].name
                      n == IF Len(name) < 2 THEN -1 ELSE int_of(Tail(name), 0)
                  IN  IF r.err # NoErr THEN r
                      ELSE IF n < 0
                      THEN Result(r.heap, r.fsm, PyNone,
                                  Raise("ValueError", "invalid literal for int()"))
                      ELSE Result(r.heap, r.fsm, PyInt(n), NoErr)

\* process_three_mod_input accepting any iterable where the code demands a
\* list.
process_three_mod_input_any_iterable(h, f, input_sequence) ==
    IF ~HasIter(input_sequence)
    THEN Result(h, f, PyNone, Raise("TypeError", "Input sequence must be a list."))
    ELSE LET bad == first_invalid(input_sequence.items, 1)
         IN  IF bad # 0 /\ ~IsInt(input_sequence.items[bad])
             THEN Result(h, f, PyNone,
                         RaiseAt("TypeError", "Each input in the sequence must be an integer.",
                                 <<>>, input_sequence.items[bad]))
             ELSE IF bad # 0
             THEN Result(h, f, PyNone,
                         RaiseAt("TypeError", "Each input value must be binary (0 or 1).",
                                 <<>>, input_sequence.items[bad]))
             ELSE LET r == process_input(h, f, input_sequence)
                      name == h[r.fsm.current_state].name
                      n == IF Len(name) < 2 THEN -1 ELSE int_of(Tail(name), 0)
                  IN  IF r.err # NoErr THEN r
                      ELSE IF n < 0
                      THEN Result(r.heap, r.fsm, PyNone,
                                  Raise("ValueError", "invalid literal for int()"))
                      ELSE Result(r.heap, r.fsm, PyInt(n), NoErr)

\* ModThreeFSM.process_three_mod_input(input_sequence)
process_three_mod_input(h, f, input_sequence) ==
    IF input_sequence.ty # "list"
    THEN Result(h, f, PyNone, Raise("TypeError", "Input sequence must be a list."))
    ELSE LET bad == first_invalid(input_sequence.items, 1)
         IN  IF bad # 0 /\ ~IsInt(input_sequence.items[bad])
             THEN Result(h, f, PyNone,
                         RaiseAt("TypeError", "Each input in the sequence must be an integer.",
                                 <<>>, input_sequence.items[bad]))
             ELSE IF bad # 0
             THEN Result(h, f, PyNone,
                         RaiseAt("TypeError", "Each input value must be binary (0 or 1).",
                                 <<>>, input_sequence.items[bad]))
             ELSE LET r == process_input(h, f, input_sequence)
                      name == h[r.fsm.current_state].name
                      n == IF Len(name) < 2 THEN -1 ELSE int_of(Tail(name), 0)
                  IN  IF r.err # NoErr THEN r
                      ELSE IF n < 0
                      THEN Result(r.heap, r.fsm, PyNone,
                                  Raise("ValueError", "invalid literal for int()"))
                      ELSE Result(r.heap, r.fsm, PyInt(n), NoErr)

\* binary_to_decimal_from without reversed(): the first bit weighs 2**0.
RECURSIVE binary_to_decimal_from_not_reversed(_, _)
binary_to_decimal_from_not_reversed(bits, idx) ==
    IF idx >= Len(bits) THEN 0
    ELSE bits[idx + 1] * (2 ^ idx) + binary_to_decimal_from_not_reversed(bits, idx + 1)

\* ModThreeFSM.binary_to_decimal(input_sequence):
\* sum(bit * 2**idx for idx, bit in enumerate(reversed(input_sequence)))
RECURSIVE binary_to_decimal_from(_, _)
binary_to_decimal_from(bits, idx) ==
    IF idx >= Len(bits) THEN 0
    ELSE bits[Len(bits) - idx] * (2 ^ idx) + binary_to_decimal_from(bits, idx + 1)

binary_to_decimal(bits) == binary_to_decimal_from(bits, 0)

----------------------------------------------------------------------------
(* Inputs *)

RECURSIVE SeqsUpTo(_, _)
SeqsUpTo(S, n) ==
    IF n = 0 THEN {<<>>}
    ELSE LET shorter == SeqsUpTo(S, n - 1)
         IN  shorter \cup {Append(q, x) : q \in {t \in shorter : Len(t) = n - 1}, x \in S}

\* Names passed to add_transition; "" is never the name of a state.
Names == {<<>>, S0, S1}

\* The State(...) calls of a client, each made at most once:
\* State("S0", is_accepting=False), State("S1", is_accepting=True),
\* State("", is_accepting=True), State("S1", is_accepting="not_boolean").
StateCalls == {[name |-> S0, acc |-> PyBool(FALSE)], [name |-> S1, acc |-> PyBool(TRUE)],
               [name |-> <<>>, acc |-> PyBool(TRUE)], [name |-> S1, acc |-> PyStr(0)]}

\* The State(...) calls of a client of a ModThreeFSM: State("S3"), whose
\* is_accepting defaults to False, and State("S3", is_accepting="not_boolean").
ExtraStateCalls == {[name |-> S3, acc |-> PyBool(FALSE)], [name |-> S3, acc |-> PyStr(0)]}

\* The State(...) calls of a client that gives two State objects one name:
\* State("S0"), State("S1", is_accepting=True), State("S1").
SameNameStateCalls == {[name |-> S0, acc |-> PyBool(FALSE)], [name |-> S1, acc |-> PyBool(TRUE)],
                       [name |-> S1, acc |-> PyBool(FALSE)]}

\* Transition symbols: 0, 1 and "not_int".
Symbols == {PyInt(0), PyInt(1), PyStr(0)}
IntSymbols == {PyInt(0), PyInt(1)}
ExtraSymbols == {PyInt(0), PyInt(2)}

\* 2**31-1, the "max int" symbol of test_transition_with_edge_values.
MaxIntSymbol == 2147483647

\* The symbols of test_transition_with_edge_values: -1, 0 and 2**31-1.
EdgeSymbols == {PyInt(-1), PyInt(0), PyInt(MaxIntSymbol)}

\* Elements of malformed input sequences: 1, 2 and "0".
Elems == {PyInt(1), PyInt(2), PyStr(0)}
Bits == {PyInt(0), PyInt(1)}

\* "101" and 5
NonLists == {Arg("str", <<PyStr(1), PyStr(0), PyStr(1)>>), Arg("int", <<>>)}

Inputs == {Arg("list", q) : q \in SeqsUpTo(Bits, MaxLen)} \cup NonLists

BitInputs == {Arg("list", q) : q \in SeqsUpTo(Bits, MaxBits)}

\* [1] * 30, the large_binary of test_binary_to_decimal_large_numbers.
LargeBinaryLen == 30
large_binary == [i \in 1..LargeBinaryLen |-> PyInt(1)]

\* Arguments of binary_to_decimal: the bit lists and large_binary.
BinaryInputs == BitInputs \cup {Arg("list", large_binary)}

ModInputs == BitInputs \cup {Arg("list", q) : q \in SeqsUpTo(Elems, MaxLen)} \cup NonLists

----------------------------------------------------------------------------
(* The calls a client makes.  call records the last one: the method, its   *)
(* arguments, the machine's current_state before it (pre), the value it    *)
(* returned and the exception it raised.                                   *)

NoCall == [op |-> "", self |-> 0, name |-> <<>>, to |-> <<>>, sym |-> PyNone,
           obj |-> PyNone, seq |-> Arg("NoneType", <<>>), pre |-> 0,
           ret |-> PyNone, err |-> NoErr]

Do(c, r) ==
    /\ heap' = r.heap
    /\ fsm' = r.fsm
    /\ call' = [c EXCEPT !.pre = fsm.current_state, !.ret = r.ret, !.err = r.err]

TransCount(h) ==
    LET RECURSIVE count(_)
        count(i) == IF i > Len(h) THEN 0 ELSE Cardinality(DOMAIN h[i].transitions) + count(i + 1)
    IN  count(1)

\* Objects passed where a State is expected: the allocated states and
\* "not_a_state".
Objects == {PyState(i) : i \in 1..Len(heap)} \cup {PyStr(0)}

\* A State constructed by the call c is on the heap.
Constructed(c) ==
    \E i \in 1..Len(heap) :
        heap[i].name = c.name /\ heap[i].is_accepting = (c.acc = PyBool(TRUE))

\* State(name, is_accepting)
NewState(calls) ==
    \E c \in calls :
        LET r == State__init__(heap, fsm, c.name, c.acc)
        IN  /\ r.err # NoErr \/ ~Constructed(c)
            /\ Do([NoCall EXCEPT !.op = "State", !.name = c.name, !.obj = c.acc], r)

\* state.add_transition(input_symbol, next_state)
StateAddTransition(symbols, limit) ==
    \E self \in 1..Len(heap), sym \in symbols, next \in Objects :
        LET r == State_add_transition(heap, fsm, self, sym, next)
        IN  /\ r.err # NoErr \/ TransCount(heap) < limit
            /\ Do([NoCall EXCEPT !.op = "State.add_transition", !.self = self,
                                 !.sym = sym, !.obj = next], r)

\* state.get_next_state(input_symbol)
GetNextState(symbols) ==
    \E self \in 1..Len(heap), sym \in symbols :
        Do([NoCall EXCEPT !.op = "get_next_state", !.self = self, !.sym = sym],
           Result(heap, fsm, get_next_state(heap[self], sym), NoErr))

\* FSM(initial_state)
NewFSM ==
    /\ fsm.cls = "None"
    /\ \E init \in Objects :
           Do([NoCall EXCEPT !.op = "FSM", !.obj = init], FSM__init__(heap, fsm, init))

\* fsm.add_state(state)
AddState ==
    /\ fsm.cls # "None"
    /\ \E state \in Objects :
           Do([NoCall EXCEPT !.op = "add_state", !.obj = state], add_state(heap, fsm, state))

\* fsm.add_transition(from_state_name, input_symbol, to_state_name)
AddTransition(names, symbols, limit) ==
    /\ fsm.cls # "None"
    /\ \E from \in names, sym \in symbols, to \in names :
           LET r == add_transition(heap, fsm, from, sym, to)
           IN  /\ r.err # NoErr \/ TransCount(heap) < limit
               /\ Do([NoCall EXCEPT !.op = "add_transition", !.name = from,
                                    !.sym = sym, !.to = to], r)

\* fsm.process_input(input_sequence)
ProcessInput(inputs) ==
    /\ fsm.cls # "None"
    /\ \E seq \in inputs :
           Do([NoCall EXCEPT !.op = "process_input", !.seq = seq],
              process_input(heap, fsm, seq))

\* fsm.is_accepting()
IsAccepting ==
    /\ fsm.cls # "None"
    /\ Do([NoCall EXCEPT !.op = "is_accepting"], is_accepting(heap, fsm))

\* mod_three_fsm.process_three_mod_input(input_sequence)
ProcessThreeModInput(inputs) ==
    /\ fsm.cls = "ModThreeFSM"
    /\ \E seq \in inputs :
           Do([NoCall EXCEPT !.op = "process_three_mod_input", !.seq = seq],
              process_three_mod_input(heap, fsm, seq))

\* fsm.current_state = state, for a registered state.
SetCurrentState ==
    /\ fsm.cls # "None"
    /\ \E n \in DOMAIN fsm.states :
           Do([NoCall EXCEPT !.op = "set_current_state", !.obj = PyState(fsm.states[n])],
              set_current_state(heap, fsm, PyState(fsm.states[n])))

\* ModThreeFSM.binary_to_decimal(input_sequence), called on the class.
BinaryToDecimal(inputs) ==
    \E seq \in inputs :
        Do([NoCall EXCEPT !.op = "binary_to_decimal", !.seq = seq],
           Result(heap, fsm,
                  PyInt(binary_to_decimal([i \in 1..Len(seq.items) |-> seq.items[i].v])),
                  NoErr))

----------------------------------------------------------------------------
(* Spec: a client that constructs states and one FSM and calls their       *)
(* methods in any order.                                                   *)

Init ==
    /\ heap = <<>>
    /\ fsm = NoFSM
    /\ call = NoCall

Next ==
    \/ NewState(StateCalls)
    \/ StateAddTransition(Symbols, MaxTrans)
    \/ GetNextState(IntSymbols)
    \/ NewFSM
    \/ AddState
    \/ AddTransition(Names, IntSymbols, MaxTrans)
    \/ ProcessInput(Inputs)
    \/ IsAccepting

Spec == Init /\ [][Next]_vars

----------------------------------------------------------------------------
(* SpecMod: a client that constructs a ModThreeFSM, as fsm_tests.py        *)
(* TestModThreeFSM.setUp and example_fsm_mod3.py do, and calls its         *)
(* methods, the inherited ones included, in any order.                     *)

ModThreeFSM_new == ModThreeFSM__init__(<<>>, NoFSM)

InitMod ==
    /\ heap = ModThreeFSM_new.heap
    /\ fsm = ModThreeFSM_new.fsm
    /\ call = [NoCall EXCEPT !.op = "ModThreeFSM"]

NextMod ==
    \/ ProcessThreeModInput(ModInputs)
    \/ ProcessInput(Inputs)
    \/ IsAccepting
    \/ NewState(ExtraStateCalls)
    \/ AddState
    \/ AddTransition({S0, S3}, ExtraSymbols, TransCount(ModThreeFSM_new.heap) + MaxExtra)

SpecMod == InitMod /\ [][NextMod]_vars

----------------------------------------------------------------------------
(* SpecExample: the program example_fsm.py.  Its machine is built as the   *)
(* script builds it; the client then processes input sequences no longer   *)
(* than the script's and asks for acceptance.                              *)

\* example_fsm.py, line 26
input_sequence == <<PyInt(1), PyInt(0), PyInt(1), PyInt(0), PyInt(1)>>

\* example_fsm.py, lines 5 to 23
example_fsm ==
    LET r0 == State__init__(<<>>, NoFSM, S0, PyBool(FALSE))
        r1 == State__init__(r0.heap, NoFSM, S1, PyBool(FALSE))
        r2 == State__init__(r1.heap, NoFSM, S2, PyBool(TRUE))
        m0 == FSM__init__(r2.heap, NoFSM, r0.ret)
        m1 == add_state(m0.heap, m0.fsm, r1.ret)
        m2 == add_state(m1.heap, m1.fsm, r2.ret)
        t1 == add_transition(m2.heap, m2.fsm, S0, PyInt(0), S0)
        t2 == add_transition(t1.heap, t1.fsm, S0, PyInt(1), S1)
        t3 == add_transition(t2.heap, t2.fsm, S1, PyInt(0), S2)
        t4 == add_transition(t3.heap, t3.fsm, S1, PyInt(1), S0)
        t5 == add_transition(t4.heap, t4.fsm, S2, PyInt(0), S1)
        t6 == add_transition(t5.heap, t5.fsm, S2, PyInt(1), S2)
    IN  t6

ExampleInputs == {Arg("list", q) : q \in SeqsUpTo(Bits, Len(input_sequence))}

InitExample ==
    /\ heap = example_fsm.heap
    /\ fsm = example_fsm.fsm
    /\ call = [NoCall EXCEPT !.op = "add_transition", !.name = S2, !.sym = PyInt(1), !.to = S2]

NextExample ==
    \/ ProcessInput(ExampleInputs)
    \/ IsAccepting

SpecExample == InitExample /\ [][NextExample]_vars

\* SpecReset: the machine of example_fsm.py with a client that also
\* restarts runs by assigning current_state, as test_resetting_fsm does.
NextReset ==
    \/ ProcessInput(ExampleInputs)
    \/ IsAccepting
    \/ SetCurrentState

SpecReset == InitExample /\ [][NextReset]_vars

\* SpecModOnly: the same machine driven through process_three_mod_input
\* only, as fsm_tests.py TestModThreeFSM drives it.
NextModOnly == ProcessThreeModInput(ModInputs)

SpecModOnly == InitMod /\ [][NextModOnly]_vars

\* SpecRegistry: a client that constructs states, two of them named S1,
\* and one FSM, registers the states in any order and asks for acceptance.
NextRegistry ==
    \/ NewState(SameNameStateCalls)
    \/ NewFSM
    \/ AddState
    \/ IsAccepting

SpecRegistry == Init /\ [][NextRegistry]_vars

\* SpecState: the two states of test_transition_with_edge_values, S1 and
\* S2, and a client that adds transitions for the test's symbols to either
\* and looks them up, in any order.
edge_states ==
    LET r1 == State__init__(<<>>, NoFSM, S1, PyBool(FALSE))
        r2 == State__init__(r1.heap, NoFSM, S2, PyBool(FALSE))
    IN  r2

InitState ==
    /\ heap = edge_states.heap
    /\ fsm = NoFSM
    /\ call = [NoCall EXCEPT !.op = "State", !.name = S2, !.obj = PyBool(FALSE),
                              !.ret = edge_states.ret]

NextState ==
    \/ StateAddTransition(EdgeSymbols, MaxTrans)
    \/ GetNextState(EdgeSymbols)

SpecState == InitState /\ [][NextState]_vars

\* SpecBinary: a ModThreeFSM whose client computes remainders and
\* converts bit lists with binary_to_decimal, in any order.
NextBinary ==
    \/ BinaryToDecimal(BinaryInputs)
    \/ ProcessThreeModInput(BitInputs)

SpecBinary == InitMod /\ [][NextBinary]_vars

----------------------------------------------------------------------------
(* Vocabulary of the properties *)

\* A list all of whose elements are the integers 0 or 1.
IsBitList(a) == a.ty = "list" /\ \A i \in 1..Len(a.items) : a.items[i] \in Bits

\* The numbers of a bit list.
BitsOf(a) == [i \in 1..Len(a.items) |-> a.items[i].v]

\* The left fold of step(s, sym) = s.get_next_state(sym) over items from
\* state s, built from the last symbol backwards; 0 when some step has no
\* transition.
RECURSIVE FoldLeft(_, _, _)
FoldLeft(h, s, items) ==
    IF items = <<>> THEN s
    ELSE LET p == FoldLeft(h, s, SubSeq(items, 1, Len(items) - 1))
             n == get_next_state(h[p], items[Len(items)])
         IN  IF p = 0 \/ n = PyNone THEN 0 ELSE n.v

\* The position of the first symbol without a transition on the path from
\* state s (0 when the whole path is defined).
FirstUndefined(h, s, items) ==
    IF FoldLeft(h, s, items) # 0 THEN 0
    ELSE CHOOSE k \in 1..Len(items) :
             /\ FoldLeft(h, s, SubSeq(items, 1, k)) = 0
             /\ FoldLeft(h, s, SubSeq(items, 1, k - 1)) # 0

\* The position of the first element that is not the integer 0 or 1.
FirstOffending(items) ==
    IF \A i \in 1..Len(items) : items[i] \in Bits THEN 0
    ELSE CHOOSE k \in 1..Len(items) :
             /\ items[k] \notin Bits
             /\ \A i \in 1..(k - 1) : items[i] \in Bits

\* The error kind of the specification's taxonomy an exception stands for.
ErrorKind(err) ==
    CASE err.msg = "Input sequence must be a list." -> "NotASequenceError"
      [] err.msg = "Input sequence cannot be empty." -> "EmptyInputError"
      [] err.msg = "Each input in the sequence must be an integer." -> "InvalidSymbolTypeError"
      [] err.msg = "Each input value must be binary (0 or 1)." -> "InvalidSymbolTypeError"
      [] err.msg = "No transition for input from state." -> "NoTransitionError"
      [] err.msg = "Transition for input already exists." -> "DuplicateTransitionError"
      [] err.msg = "A state with the name already exists." -> "DuplicateStateError"
      [] err.msg = "Source state does not exist." -> "UnknownStateError"
      [] err.msg = "Target state does not exist." -> "UnknownStateError"
      [] OTHER -> ""

\* The State a call of State.add_transition or FSM.add_transition adds to,
\* looked up in the machine f the call is made on (0 when the call names an
\* unregistered source).
SourceOf(f, c) ==
    CASE c.op = "State.add_transition" -> c.self
      [] c.op = "add_transition" /\ c.name \in DOMAIN f.states -> f.states[c.name]
      [] OTHER -> 0

\* The name of the state standing for remainder r: "S0", "S1", "S2".
RemainderName(r) == <<"S", Digits[r + 1]>>

\* The sum over i of bits[i] * 2^(n-i), i = 1..n: the first bit is the most
\* significant one.
RECURSIVE MsbFirstSum(_, _)
MsbFirstSum(bits, i) ==
    IF i > Len(bits) THEN 0
    ELSE bits[i] * 2 ^ (Len(bits) - i) + MsbFirstSum(bits, i + 1)

\* The S0 object of the ModThreeFSM.
TheS0 == ModThreeFSM_new.fsm.current_state

\* The S0 object of the machine of example_fsm.py.
ExampleS0 == example_fsm.fsm.states[S0]

----------------------------------------------------------------------------
(* Properties *)

\* C1: on a ModThreeFSM whose current state is S0, as after construction,
\* process_three_mod_input of a non-empty bit list returns
\* binary_to_decimal(list) % 3.
C1_ModThreeCorrect ==
    (/\ call.op = "process_three_mod_input"
     /\ call.pre = TheS0
     /\ IsBitList(call.seq)
     /\ Len(call.seq.items) >= 1)
    => /\ call.err = NoErr
       /\ call.ret = PyInt(binary_to_decimal(BitsOf(call.seq)) % 3)

C1_Witness ==
    /\ call.op = "process_three_mod_input"
    /\ call.pre = TheS0
    /\ heap = ModThreeFSM_new.heap
    /\ IsBitList(call.seq)
    /\ Len(call.seq.items) = MaxBits
    /\ call.ret = PyInt(2)

\* C2: every call of process_three_mod_input with a non-empty bit list
\* returns the remainder mod 3 of the number that call's own argument
\* encodes, whatever the earlier calls processed.
C2_EachCallOwnRemainder ==
    (/\ call.op = "process_three_mod_input"
     /\ IsBitList(call.seq)
     /\ Len(call.seq.items) >= 1)
    => /\ call.err = NoErr
       /\ call.ret = PyInt(binary_to_decimal(BitsOf(call.seq)) % 3)

\* C3 as stated: the machine of example_fsm.py, in S0, given
\* process_input([1,0,1,0,1]), ends in S2 and is_accepting() is true.
C3_ScenarioA_EndsInS2 ==
    (/\ call.op = "process_input"
     /\ call.pre = ExampleS0
     /\ call.seq = Arg("list", input_sequence))
    => /\ call.ret.ty = "State"
       /\ heap[call.ret.v].name = S2
       /\ is_accepting(heap, fsm).ret = PyBool(TRUE)

\* C3 amended: the machine of example_fsm.py, in S0, given
\* process_input([1,0,1,0,1]), ends in S0 and is_accepting() is false.
C3_ScenarioA_EndsInS0 ==
    (/\ call.op = "process_input"
     /\ call.pre = ExampleS0
     /\ call.seq = Arg("list", input_sequence))
    => /\ call.err = NoErr
       /\ call.ret.ty = "State"
       /\ heap[call.ret.v].name = S0
       /\ fsm.current_state = call.ret.v
       /\ is_accepting(heap, fsm).ret = PyBool(FALSE)

C3_Witness ==
    /\ call.op = "process_input"
    /\ call.pre = ExampleS0
    /\ call.seq = Arg("list", input_sequence)
    /\ heap = example_fsm.heap
    /\ call.ret = PyState(ExampleS0)

\* C4: for a non-empty sequence whose every step has a transition,
\* process_input returns the left fold of get_next_state over the sequence
\* from the current state, and current_state is the state returned.
C4_ProcessInputIsFold ==
    (/\ call.op = "process_input"
     /\ HasIter(call.seq)
     /\ Len(call.seq.items) >= 1
     /\ FoldLeft(heap, call.pre, call.seq.items) # 0)
    => /\ call.err = NoErr
       /\ call.ret = PyState(FoldLeft(heap, call.pre, call.seq.items))
       /\ fsm.current_state = call.ret.v

C4_Witness ==
    /\ call.op = "process_input"
    /\ Len(call.seq.items) = MaxLen
    /\ FoldLeft(heap, call.pre, call.seq.items) # 0
    /\ fsm.current_state # call.pre
    /\ \E i \in 1..Len(call.seq.items) : call.seq.items[i] # call.seq.items[1]

\* C5: at the first symbol without a transition process_input raises the
\* no-transition error naming the state reached and that symbol, and
\* current_state stays at the state the earlier symbols reached.
C5_NoTransitionKeepsProgress ==
    (/\ call.op = "process_input"
     /\ HasIter(call.seq)
     /\ Len(call.seq.items) >= 1
     /\ FoldLeft(heap, call.pre, call.seq.items) = 0)
    => LET k == FirstUndefined(heap, call.pre, call.seq.items)
           reached == FoldLeft(heap, call.pre, SubSeq(call.seq.items, 1, k - 1))
       IN  /\ call.err = RaiseAt("ValueError", "No transition for input from state.",
                                 heap[reached].name, call.seq.items[k])
           /\ call.ret = PyNone
           /\ fsm.current_state = reached

C5_Witness ==
    /\ call.op = "process_input"
    /\ ErrorKind(call.err) = "NoTransitionError"
    /\ FirstUndefined(heap, call.pre, call.seq.items) = MaxLen
    /\ fsm.current_state # call.pre

\* C6: process_three_mod_input checks every element before any transition:
\* with an element that is not 0 or 1 it raises the invalid-symbol error for
\* the first such element and current_state is what it was before the call.
C6_ValidationBeforeTransition ==
    (/\ call.op = "process_three_mod_input"
     /\ call.seq.ty = "list"
     /\ FirstOffending(call.seq.items) # 0)
    => /\ ErrorKind(call.err) = "InvalidSymbolTypeError"
       /\ call.err.exc = "TypeError"
       /\ call.err.sym = call.seq.items[FirstOffending(call.seq.items)]
       /\ call.ret = PyNone
       /\ fsm.current_state = call.pre

C6_Witness ==
    /\ call.op = "process_three_mod_input"
    /\ call.seq.ty = "list"
    /\ FirstOffending(call.seq.items) = MaxLen
    /\ ErrorKind(call.err) = "InvalidSymbolTypeError"
    /\ call.pre # TheS0

\* C7: the current_state of an FSM is a State of its states registry.
C7_CurrentStateRegistered ==
    fsm.cls # "None" => \E n \in DOMAIN fsm.states : fsm.states[n] = fsm.current_state

\* C8: the registry of a ModThreeFSM holds exactly the states S0, S1 and
\* S2, each accepting.
C8_ExactlyThreeStates ==
    fsm.cls = "ModThreeFSM"
    => /\ DOMAIN fsm.states = {S0, S1, S2}
       /\ \A n \in DOMAIN fsm.states : heap[fsm.states[n]].is_accepting

\* C9: process_input and process_three_mod_input of an empty sequence raise
\* the empty-input error and leave current_state, the registry and every
\* transition table as they were.
C9_EmptyInputRejected ==
    [][(/\ call'.op \in {"process_input", "process_three_mod_input"}
        /\ call'.seq = Arg("list", <<>>))
       => /\ call'.err = Raise("ValueError", "Input sequence cannot be empty.")
          /\ ErrorKind(call'.err) = "EmptyInputError"
          /\ call'.ret = PyNone
          /\ fsm' = fsm
          /\ heap' = heap]_vars

C9_Witness ==
    /\ call.op = "process_three_mod_input"
    /\ call.seq = Arg("list", <<>>)
    /\ ErrorKind(call.err) = "EmptyInputError"
    /\ fsm.current_state # TheS0

\* C10: process_three_mod_input raises one error kind per malformed
\* argument: not a list, the not-a-sequence error; an empty list, the
\* empty-input error; a list with an element other than 0 or 1, the
\* invalid-symbol error; and it returns no remainder then.
C10_ErrorKindPerArgument ==
    call.op = "process_three_mod_input"
    => /\ (call.seq.ty # "list") <=> ErrorKind(call.err) = "NotASequenceError"
       /\ (call.seq.ty = "list" /\ call.seq.items = <<>>)
              <=> ErrorKind(call.err) = "EmptyInputError"
       /\ (call.seq.ty = "list" /\ FirstOffending(call.seq.items) # 0)
              <=> ErrorKind(call.err) = "InvalidSymbolTypeError"
       /\ ErrorKind(call.err) # "" => call.ret = PyNone

C10_Witness ==
    /\ call.op = "process_three_mod_input"
    /\ call.seq = Arg("list", <<PyInt(1), PyInt(2), PyInt(1)>>)
    /\ ErrorKind(call.err) = "InvalidSymbolTypeError"

C12_DuplicateStateRejected ==
    [][/\ (/\ call'.op = "add_state"
            /\ call'.obj.ty = "State"
            /\ heap[call'.obj.v].name \in DOMAIN fsm.states)
           => /\ ErrorKind(call'.err) = "DuplicateStateError"
              /\ call'.err.exc = "ValueError"
              /\ fsm' = fsm
              /\ heap' = heap
       /\ \A n \in DOMAIN fsm'.states : heap'[fsm'.states[n]].name = n]_vars

C12_Witness ==
    /\ call.op = "add_state"
    /\ ErrorKind(call.err) = "DuplicateStateError"
    /\ call.obj.v # fsm.states[heap[call.obj.v].name]
    /\ fsm.current_state = fsm.states[heap[call.obj.v].name]

\* C13: FSM.add_transition with an unregistered source or target name
\* raises the unknown-state error and changes no transition table; with
\* both names registered and the symbol free on the source state it adds
\* the entry symbol -> target to the source state's table and changes
\* nothing else.
C13_UnknownStateRejected ==
    [][call'.op = "add_transition"
       => /\ (call'.name \notin DOMAIN fsm.states \/ call'.to \notin DOMAIN fsm.states)
             => /\ ErrorKind(call'.err) = "UnknownStateError"
                /\ call'.err.exc = "ValueError"
                /\ call'.err.state = (IF call'.name \notin DOMAIN fsm.states
                                      THEN call'.name ELSE call'.to)
                /\ heap' = heap
                /\ fsm' = fsm
          /\ (/\ call'.name \in DOMAIN fsm.states
              /\ call'.to \in DOMAIN fsm.states
              /\ IsInt(call'.sym)
              /\ call'.sym.v \notin DOMAIN heap[fsm.states[call'.name]].transitions)
             => LET src == fsm.states[call'.name]
                IN  /\ call'.err = NoErr
                    /\ fsm' = fsm
                    /\ Len(heap') = Len(heap)
                    /\ \A i \in 1..Len(heap) :
                           /\ heap'[i].name = heap[i].name
                           /\ heap'[i].is_accepting = heap[i].is_accepting
                           /\ i # src => heap'[i].transitions = heap[i].transitions
                    /\ DOMAIN heap'[src].transitions
                           = DOMAIN heap[src].transitions \cup {call'.sym.v}
                    /\ heap'[src].transitions[call'.sym.v] = fsm.states[call'.to]
                    /\ \A k \in DOMAIN heap[src].transitions :
                           heap'[src].transitions[k] = heap[src].transitions[k]]_vars

C13_Witness ==
    /\ call.op = "add_transition"
    /\ ErrorKind(call.err) = "UnknownStateError"
    /\ call.name \in DOMAIN fsm.states
    /\ call.to \notin DOMAIN fsm.states
    /\ call.sym.v \notin DOMAIN heap[fsm.states[call.name]].transitions
    /\ TransCount(heap) > 0

\* C14: get_next_state(symbol) called on a state right after a successful
\* add_transition(symbol, target) on it returns that target, for negative,
\* zero and large symbols; and get_next_state of a symbol without an entry
\* returns None and raises nothing.
C14_LookupReturnsAdded ==
    [][/\ (/\ call.op = "State.add_transition"
            /\ call.err = NoErr
            /\ call'.op = "get_next_state"
            /\ call'.self = call.self
            /\ call'.sym = call.sym)
           => /\ call'.ret = call.obj
              /\ call'.err = NoErr
       /\ (/\ call'.op = "get_next_state"
            /\ call'.sym.v \notin DOMAIN heap[call'.self].transitions)
           => /\ call'.ret = PyNone
              /\ call'.err = NoErr
              /\ heap' = heap]_vars

C14_Witness ==
    /\ call.op = "get_next_state"
    /\ call.sym = PyInt(-1)
    /\ call.ret.ty = "State"
    /\ call.ret.v # call.self
    /\ DOMAIN heap[call.self].transitions = {-1, MaxIntSymbol}

\* C15: in a ModThreeFSM the state named Sr has, for bit 0 and bit 1, a
\* transition to the state named S((r*2 + bit) mod 3), for r = 0, 1, 2; and
\* the constructor wires no other transition.
C15_TableIsDoubling ==
    fsm.cls = "ModThreeFSM"
    => \A r \in 0..2 :
           /\ RemainderName(r) \in DOMAIN fsm.states
           /\ call.op = "ModThreeFSM"
                  => DOMAIN heap[fsm.states[RemainderName(r)]].transitions = {0, 1}
           /\ \A bit \in 0..1 :
                  /\ bit \in DOMAIN heap[fsm.states[RemainderName(r)]].transitions
                  /\ heap[fsm.states[RemainderName(r)]].transitions[bit]
                         = fsm.states[RemainderName((r * 2 + bit) % 3)]

C15_Witness ==
    /\ call.op = "ModThreeFSM"
    /\ fsm.cls = "ModThreeFSM"
    /\ TransCount(heap) = 6
    /\ heap[fsm.states[S2]].transitions[0] = fsm.states[S1]

\* C16: is_accepting returns the is_accepting flag of current_state, raises
\* nothing and changes neither the machine nor any state; a second call
\* right after it returns the same value, and so does a call after any
\* step other than process_input.
C16_IsAcceptingReadsCurrent ==
    [][/\ call'.op = "is_accepting"
           => /\ call'.ret = PyBool(heap[fsm.current_state].is_accepting)
              /\ call'.err = NoErr
              /\ fsm' = fsm
              /\ heap' = heap
              /\ call.op = "is_accepting" => call'.ret = call.ret
       /\ (fsm.cls # "None" /\ call'.op # "process_input")
           => is_accepting(heap', fsm').ret = is_accepting(heap, fsm).ret]_vars

C16_Witness ==
    /\ call.op = "is_accepting"
    /\ call.ret = PyBool(TRUE)
    /\ TransCount(heap) = 0
    /\ Cardinality(DOMAIN fsm.states) = 2

\* C17: binary_to_decimal of a bit list of length n is the sum of
\* bit[i] * 2^(n-i) with the first bit the most significant, 2^30 - 1 for
\* thirty ones, and the call changes neither the machine nor any state,
\* whatever state the machine is in.
C17_BinaryToDecimalIsMsbFirst ==
    [][call'.op = "binary_to_decimal"
       => /\ call'.err = NoErr
          /\ call'.ret = PyInt(MsbFirstSum(BitsOf(call'.seq), 1))
          /\ call'.seq.items = large_binary => call'.ret = PyInt(2 ^ LargeBinaryLen - 1)
          /\ fsm' = fsm
          /\ heap' = heap]_vars

C17_Witness ==
    /\ call.op = "binary_to_decimal"
    /\ call.seq.items = large_binary
    /\ call.ret = PyInt(2 ^ LargeBinaryLen - 1)
    /\ fsm.current_state # TheS0

\* C18: on the machine of example_fsm.py, whatever it has processed, a
\* process_input call right after current_state was assigned the initial
\* state S0 returns, raises and leaves behind what the same call does on the
\* machine as the script has just constructed it.
C18_ResetBehavesAsNew ==
    [][(/\ call.op = "set_current_state"
        /\ call.obj = PyState(ExampleS0)
        /\ call'.op = "process_input")
       => LET fresh == process_input(example_fsm.heap, example_fsm.fsm, call'.seq)
          IN  /\ call'.ret = fresh.ret
              /\ call'.err = fresh.err
              /\ fsm' = fresh.fsm
              /\ heap' = fresh.heap]_vars

C18_Witness ==
    /\ call.op = "set_current_state"
    /\ call.obj = PyState(ExampleS0)
    /\ call.pre # ExampleS0
    /\ fsm.current_state = ExampleS0
    /\ heap[call.pre].name = S2

\* C19: every step keeps every State and every entry of every transition
\* table: an entry symbol -> target of a state before the step is an entry
\* of that state with the same target after it.
C19_TablesAppendOnly ==
    [][/\ Len(heap') >= Len(heap)
       /\ \A i \in 1..Len(heap) :
              \A k \in DOMAIN heap[i].transitions :
                  /\ k \in DOMAIN heap'[i].transitions
                  /\ heap'[i].transitions[k] = heap[i].transitions[k]]_vars

C19_Witness ==
    /\ call.op = "State.add_transition"
    /\ call.err = NoErr
    /\ DOMAIN heap[call.self].transitions = {0, 1}
    /\ heap[call.self].transitions[0] # heap[call.self].transitions[1]

\* C20: after a call of add_state, FSM.add_transition, State.add_transition,
\* get_next_state or is_accepting, whether it returned or raised,
\* current_state is the state it was before the call; after a process_input
\* call that returned it is the state returned.
C20_OnlyProcessInputMoves ==
    /\ call.op \in {"add_state", "add_transition", "State.add_transition",
                     "get_next_state", "is_accepting"}
           => fsm.current_state = call.pre
    /\ (call.op = "process_input" /\ call.err = NoErr)
           => PyState(fsm.current_state) = call.ret

C20_Witness ==
    /\ call.op = "add_state"
    /\ call.err = NoErr
    /\ fsm.current_state = call.pre
    /\ fsm.current_state # call.obj.v
    /\ TransCount(heap) > 0

C22_ModThreeStaysTotal ==
    /\ \E r \in 0..2 :
           /\ heap[fsm.current_state].name = RemainderName(r)
           /\ fsm.states[RemainderName(r)] = fsm.current_state
    /\ {0, 1} \subseteq DOMAIN heap[fsm.current_state].transitions
    /\ is_accepting(heap, fsm).ret = PyBool(TRUE)
    /\ ErrorKind(call.err) # "NoTransitionError"
    /\ (/\ call.op = "process_three_mod_input"
        /\ IsBitList(call.seq)
        /\ Len(call.seq.items) >= 1)
       => /\ call.err = NoErr
          /\ call.ret \in {PyInt(0), PyInt(1), PyInt(2)}

C22_Witness ==
    /\ call.op = "process_three_mod_input"
    /\ call.err = NoErr
    /\ Len(call.seq.items) = MaxBits
    /\ call.pre = fsm.states[S2]
    /\ fsm.current_state = fsm.states[S1]

\* C23: a process_input or process_three_mod_input call, returning or
\* raising, leaves the states registry and every State's name, is_accepting
\* flag and transition table as they were; only current_state may differ.
C23_ProcessingFrame ==
    [][call'.op \in {"process_input", "process_three_mod_input"}
       => /\ fsm'.states = fsm.states
          /\ fsm'.cls = fsm.cls
          /\ Len(heap') = Len(heap)
          /\ \A i \in 1..Len(heap) :
                 /\ heap'[i].name = heap[i].name
                 /\ heap'[i].is_accepting = heap[i].is_accepting
                 /\ heap'[i].transitions = heap[i].transitions]_vars

C23_Witness ==
    /\ call.op = "process_input"
    /\ ErrorKind(call.err) = "NoTransitionError"
    /\ fsm.current_state # TheS0
    /\ Cardinality(DOMAIN fsm.states) = 4
    /\ TransCount(heap) > TransCount(ModThreeFSM_new.heap)

====
